---------------------------- MODULE Spec2Model ----------------------------
(***************************************************************************)
(* A model of angr's Concrete state plugin                                 *)
(* (src/angr/state_plugins/concrete.py): the plugin object and its two     *)
(* list fields, sync() with its steps in source order, the on-demand       *)
(* segment hook _sync_segments, copy(), and the matching heuristic         *)
(* _check_mapping_name.                                                    *)
(*                                                                         *)
(* Python lists are heap objects: a plugin field holds a list's identity   *)
(* and the variable heap holds each list's contents, so that two plugins   *)
(* holding the same list see each other's appends.                         *)
(*                                                                         *)
(* The concrete target is the environment: every read of it (a register,   *)
(* memory, the mapping table) is a nondeterministic input of the step      *)
(* that performs it.                                                       *)
(***************************************************************************)
EXTENDS Integers, Sequences, FiniteSets

(***************************************************************************)
(* Bounds of the model.                                                    *)
(***************************************************************************)
\* number of SimStates (each with its Concrete plugin) that may exist
MaxStates == 2
\* longest mapping table the target returns from get_mappings()
MaxMaps == 2
\* longest already_sync_objects_addresses list the model lets grow
MaxSynced == 3

(***************************************************************************)
(* Small helpers on sequences.                                             *)
(***************************************************************************)
Range(s) == {s[k] : k \in 1..Len(s)}

IsPrefix(s, t) == Len(s) <= Len(t) /\ \A k \in 1..Len(s) : s[k] = t[k]

Count(s, x) == Cardinality({k \in 1..Len(s) : s[k] = x})

SeqsUpTo(S, n) == UNION {[1..m -> S] : m \in 0..n}

(***************************************************************************)
(* Concrete.__init__ and its default arguments.  The two [] defaults are   *)
(* evaluated once, when the def statement runs: they are two list objects  *)
(* that exist for the life of the class.                                   *)
(***************************************************************************)
None == 0

DefaultWhitelist == "whitelist_default"

DefaultAlreadySync == "already_sync_default"

ListIds == {DefaultWhitelist, DefaultAlreadySync}

Concrete(sri, srci, wl, bp, cle, synced) ==
    [segment_registers_initialized          |-> sri,
     segment_registers_callback_initialized |-> srci,
     whitelist                              |-> wl,
     fs_register_bp                         |-> bp,
     synchronize_cle                        |-> cle,
     already_sync_objects_addresses         |-> synced]

ConcreteDefault ==
    Concrete(FALSE, FALSE, DefaultWhitelist, None, TRUE, DefaultAlreadySync)

\* copy(): every field is handed to the constructor as it is; the two list
\* fields are handed over by reference.
ConcreteCopy(self) ==
    Concrete(self.segment_registers_initialized,
             self.segment_registers_callback_initialized,
             self.whitelist,
             self.fs_register_bp,
             self.synchronize_cle,
             self.already_sync_objects_addresses)

(***************************************************************************)
(* The project: architecture, loader settings, relocations, images.        *)
(***************************************************************************)
ArchKinds == {"AMD64", "X86", "OTHER"}

\* state.arch.register_list: name, the concrete flag, the sub-register names.
\* Each name covers cells of the register file; a sub-register covers some
\* of its register's cells.
RegisterList(arch) ==
    CASE arch = "AMD64" ->
           << [name |-> "rax",   concrete |-> TRUE,  subregisters |-> <<"eax">>],
              [name |-> "rbx",   concrete |-> TRUE,  subregisters |-> << >>],
              [name |-> "cc_op", concrete |-> FALSE, subregisters |-> << >>] >>
      [] arch = "X86" ->
           << [name |-> "ebx",   concrete |-> TRUE,  subregisters |-> << >>],
              [name |-> "cc_op", concrete |-> FALSE, subregisters |-> << >>] >>
      [] OTHER ->
           << [name |-> "r0",    concrete |-> TRUE,  subregisters |-> << >>] >>

RegNames == {"rax", "eax", "rbx", "ebx", "r0", "cc_op"}

Cells == 1..4

\* the cells of the register file a name covers, low cell first
RegCells(name) ==
    CASE name = "rax"   -> <<1, 2>>
      [] name = "eax"   -> <<1>>
      [] name = "rbx"   -> <<3>>
      [] name = "ebx"   -> <<3>>
      [] name = "r0"    -> <<3>>
      [] OTHER          -> <<4>>

\* setattr(state.regs, name, value)
RegWrite(file, name, value) ==
    [c \in Cells |->
        IF \E k \in 1..Len(RegCells(name)) : RegCells(name)[k] = c
        THEN value[CHOOSE k \in 1..Len(RegCells(name)) : RegCells(name)[k] = c]
        ELSE file[c]]

\* getattr(state.regs, name)
RegRead(file, name) ==
    [k \in 1..Len(RegCells(name)) |-> file[RegCells(name)[k]]]

\* what target.read_register(name) can do: raise SimConcreteRegisterError,
\* or return a value of the register's width
Unavailable == [ok |-> FALSE, val |-> << >>]

TargetRegValues(name) ==
    CASE name = "rax" -> {<<0, 1>>, <<1, 1>>}
      [] name = "eax" -> {<<1>>}
      [] OTHER        -> {<<1>>}

RegReadings(name) ==
    {Unavailable} \cup {[ok |-> TRUE, val |-> v] : v \in TargetRegValues(name)}

\* the names sync() reads: the concrete registers and their sub-registers
ListedNames(arch) ==
    UNION {{RegisterList(arch)[k].name} \cup Range(RegisterList(arch)[k].subregisters)
           : k \in {j \in 1..Len(RegisterList(arch)) : RegisterList(arch)[j].concrete}}

\* one outcome of read_register per register name, for one sync() call
AllReadings(arch) ==
    {[n \in RegNames |-> IF n \in ListedNames(arch) THEN q[n] ELSE Unavailable] :
        q \in {f \in [ListedNames(arch) -> UNION {RegReadings(n) : n \in RegNames}] :
                 \A n \in ListedNames(arch) : f[n] \in RegReadings(n)}}

(***************************************************************************)
(* _sync_registers(register_names, target): for each name in order, read   *)
(* it from the target and write it to state.regs; SimConcreteRegisterError *)
(* is caught per name.                                                     *)
(***************************************************************************)
RECURSIVE SyncRegisters(_, _, _)
SyncRegisters(file, names, reads) ==
    IF names = << >> THEN file
    ELSE IF reads[Head(names)].ok
         THEN SyncRegisters(RegWrite(file, Head(names), reads[Head(names)].val),
                            Tail(names), reads)
         ELSE SyncRegisters(file, Tail(names), reads)

(***************************************************************************)
(* sync(), lines 70-81: the registers flagged concrete, in list order;     *)
(* for each, its sub-registers first and the whole register last.          *)
(***************************************************************************)
RECURSIVE SyncRegisterListFullFirst(_, _, _)
SyncRegisterListFullFirst(file, list, reads) ==
    IF list = << >> THEN file
    ELSE IF Head(list).concrete
         THEN SyncRegisterListFullFirst(
                  SyncRegisters(SyncRegisters(file, <<Head(list).name>>, reads),
                                Head(list).subregisters, reads),
                  Tail(list), reads)
         ELSE SyncRegisterListFullFirst(file, Tail(list), reads)

\* every read this register's turn makes succeeded
GroupOk(register, reads) ==
    /\ reads[register.name].ok
    /\ \A k \in 1..Len(register.subregisters) : reads[register.subregisters[k]].ok

RECURSIVE SyncRegisterListStop(_, _, _)
SyncRegisterListStop(file, list, reads) ==
    IF list = << >> THEN file
    ELSE IF Head(list).concrete
         THEN IF GroupOk(Head(list), reads)
              THEN SyncRegisterListStop(
                       SyncRegisters(SyncRegisters(file, Head(list).subregisters, reads),
                                     <<Head(list).name>>, reads),
                       Tail(list), reads)
              ELSE file
         ELSE SyncRegisterListStop(file, Tail(list), reads)

RECURSIVE SyncRegisterList(_, _, _)
SyncRegisterList(file, list, reads) ==
    IF list = << >> THEN file
    ELSE IF Head(list).concrete
         THEN SyncRegisterList(
                  SyncRegisters(SyncRegisters(file, Head(list).subregisters, reads),
                                <<Head(list).name>>, reads),
                  Tail(list), reads)
         ELSE SyncRegisterList(file, Tail(list), reads)


(***************************************************************************)
(* sync(), lines 85-97: import rebinding.  A relocation is a symbol name   *)
(* ("" when the relocation has no symbol) and a rebased address.  For      *)
(* each relocation with a symbol, in order: read a pointer-wide byte       *)
(* string from the target, decode it with the architecture's struct        *)
(* format, re-hook the symbol at the decoded address.  target.read_memory  *)
(* may raise; nothing here catches it.                                     *)
(***************************************************************************)
NoSymbol == ""

Relocs ==
    << [symbol |-> "printf", rebased_addr |-> 16],
       [symbol |-> NoSymbol, rebased_addr |-> 18],
       [symbol |-> "puts",   rebased_addr |-> 20] >>

Symbols == {"printf", "puts"}

\* arch.struct_fmt(): "<" little-endian or ">" big-endian
StructFmt(arch) == IF arch \in {"AMD64", "X86"} THEN "<" ELSE ">"

RECURSIVE UnpackLE(_)
UnpackLE(bytes) ==
    IF bytes = << >> THEN 0 ELSE Head(bytes) + 256 * UnpackLE(Tail(bytes))

RECURSIVE UnpackBE(_, _)
UnpackBE(bytes, acc) ==
    IF bytes = << >> THEN acc ELSE UnpackBE(Tail(bytes), 256 * acc + Head(bytes))

\* struct.unpack(fmt, bytes)[0]
StructUnpack(fmt, bytes) ==
    IF fmt = "<" THEN UnpackLE(bytes) ELSE UnpackBE(bytes, 0)

\* what target.read_memory(addr, width) can do for a relocation: raise, or
\* return the bytes
MemFault == [ok |-> FALSE, bytes |-> << >>]

\* the pointers the target may hold at a relocation, low-address byte first
TargetPointers == {<<1, 0>>, <<0, 1>>}

\* The loop: hooks maps each symbol to the address its SimProcedure is
\* hooked at; mem[k] is what the read for relocation k does; read lists the
\* addresses read so far.  The result records whether the loop ran to its
\* end or an exception left it.
RECURSIVE RehookLoop(_, _, _, _, _)
RehookLoop(hooks, k, mem, fmt, read) ==
    IF k > Len(Relocs) THEN [hooks |-> hooks, raised |-> FALSE, read |-> read]
    ELSE IF Relocs[k].symbol = NoSymbol
         THEN RehookLoop(hooks, k + 1, mem, fmt, read)
         ELSE IF ~mem[k].ok
              THEN [hooks  |-> hooks, raised |-> TRUE,
                    read   |-> Append(read, Relocs[k].rebased_addr)]
              ELSE RehookLoop(
                       [hooks EXCEPT ![Relocs[k].symbol] =
                                         StructUnpack(fmt, mem[k].bytes)],
                       k + 1, mem, fmt, Append(read, Relocs[k].rebased_addr))

\* the guard of line 85
ShouldRehookAnyObject(project) == project.should_use_sim_procedures

ShouldRehook(project) == project.should_use_sim_procedures /\ ~project.pic

(***************************************************************************)
(* _check_mapping_name(cle_mapping_name, concrete_mapping_name).  A name   *)
(* is a sequence of one-character strings.  re.findall(r"[\w']+", s) is    *)
(* the list of the maximal runs of word characters and apostrophes; [0]    *)
(* of an empty list raises IndexError.                                     *)
(***************************************************************************)
WordChars == {"p", "c", "h", "2", "6", "_", "'"}

IsWordChar(ch) == ch \in WordChars

RECURSIVE TakeRun(_)
TakeRun(s) ==
    IF s = << >> \/ ~IsWordChar(Head(s)) THEN << >>
    ELSE <<Head(s)>> \o TakeRun(Tail(s))

RECURSIVE DropRun(_)
DropRun(s) ==
    IF s = << >> \/ ~IsWordChar(Head(s)) THEN s ELSE DropRun(Tail(s))

RECURSIVE FindAll(_)
FindAll(s) ==
    IF s = << >> THEN << >>
    ELSE IF IsWordChar(Head(s))
         THEN <<TakeRun(s)>> \o FindAll(DropRun(s))
         ELSE FindAll(Tail(s))

\* "True", "False", or "IndexError" when either findall result is empty
CheckMappingName(cle_mapping_name, concrete_mapping_name) ==
    IF cle_mapping_name = concrete_mapping_name THEN "True"
    ELSE LET a == FindAll(cle_mapping_name)
             b == FindAll(concrete_mapping_name)
         IN  IF a = << >> \/ b = << >> THEN "IndexError"
             ELSE IF a[1] = b[1] THEN "True" ELSE "False"

(***************************************************************************)
(* The loader's images (project.loader.all_elf_objects) and the target's   *)
(* mapping table.                                                          *)
(***************************************************************************)
\* mapped_object.binary, a path
ImageBinary ==
    << <<"/", "p">>,
       <<"/", "c", ".", "6">> >>

Images == 1..Len(ImageBinary)

RECURSIVE Basename(_)
Basename(path) ==
    IF \E k \in 1..Len(path) : path[k] = "/" THEN Basename(Tail(path)) ELSE path

\* the base each image has after CLE loaded it
LoadedBase == <<1, 2>>

\* names a live mapping can carry: the main binary, the library under its
\* versioned file name, the library under the loaded name, an anonymous
\* mapping
MapNames ==
    { <<"p">>, <<"c", "-", "2">>, <<"c", ".", "6">>, << >> }

StartAddresses == {1, 2}

\* header: whether the ten bytes at start_address contain
\* simos.get_binary_header_name()
Mappings ==
    [name : MapNames \ {<< >>}, start_address : StartAddresses, header : BOOLEAN]
        \cup {[name |-> << >>, start_address |-> 1, header |-> FALSE]}

NotImplemented == [supported |-> FALSE, vmmap |-> << >>]

\* what target.get_mappings() can do
MappingTables(n) ==
    {NotImplemented} \cup {[supported |-> TRUE, vmmap |-> t] : t \in SeqsUpTo(Mappings, n)}

(***************************************************************************)
(* sync(), lines 133-163: the inner loop over the mapping table for one    *)
(* image.  reads lists the mappings whose header was read.                 *)
(***************************************************************************)
\* the same loop without the break statements of lines 148 and 163
RECURSIVE ScanMappingsNoBreak(_, _, _, _, _, _)
ScanMappingsNoBreak(img, base, synced, vmmap, j, reads) ==
    IF j > Len(vmmap)
    THEN [base |-> base, synced |-> synced, raised |-> FALSE, reads |-> reads]
    ELSE LET mmap == vmmap[j]
             chk  == CheckMappingName(Basename(ImageBinary[img]), mmap.name)
         IN  IF chk = "IndexError"
             THEN [base |-> base, synced |-> synced, raised |-> TRUE, reads |-> reads]
             ELSE IF chk = "True"
                  THEN IF mmap.header
                       THEN ScanMappingsNoBreak(img, mmap.start_address,
                                                Append(synced, mmap.name), vmmap, j + 1,
                                                Append(reads, <<img, j>>))
                       ELSE ScanMappingsNoBreak(img, base, synced, vmmap, j + 1,
                                                Append(reads, <<img, j>>))
                  ELSE ScanMappingsNoBreak(img, base, synced, vmmap, j + 1, reads)

\* the same loop without the header test of line 142
RECURSIVE ScanMappingsNoHeader(_, _, _, _, _, _)
ScanMappingsNoHeader(img, base, synced, vmmap, j, reads) ==
    IF j > Len(vmmap)
    THEN [base |-> base, synced |-> synced, raised |-> FALSE, reads |-> reads]
    ELSE LET mmap == vmmap[j]
             chk  == CheckMappingName(Basename(ImageBinary[img]), mmap.name)
         IN  IF chk = "IndexError"
             THEN [base |-> base, synced |-> synced, raised |-> TRUE, reads |-> reads]
             ELSE IF chk = "True"
                  THEN [base   |-> mmap.start_address,
                        synced |-> Append(synced, mmap.name),
                        raised |-> FALSE,
                        reads  |-> Append(reads, <<img, j>>)]
                  ELSE ScanMappingsNoHeader(img, base, synced, vmmap, j + 1, reads)

RECURSIVE ScanMappings(_, _, _, _, _, _)
ScanMappings(img, base, synced, vmmap, j, reads) ==
    IF j > Len(vmmap)
    THEN [base |-> base, synced |-> synced, raised |-> FALSE, reads |-> reads]
    ELSE LET mmap == vmmap[j]
             chk  == CheckMappingName(Basename(ImageBinary[img]), mmap.name)
         IN  IF chk = "IndexError"
             THEN [base |-> base, synced |-> synced, raised |-> TRUE, reads |-> reads]
             ELSE IF chk = "True"
                  THEN IF mmap.header
                       THEN \* both branches of line 143 append mmap.name and
                            \* break; the base ends at start_address in both
                            [base   |-> mmap.start_address,
                             synced |-> Append(synced, mmap.name),
                             raised |-> FALSE,
                             reads  |-> Append(reads, <<img, j>>)]
                       ELSE ScanMappings(img, base, synced, vmmap, j + 1,
                                         Append(reads, <<img, j>>))
                  ELSE ScanMappings(img, base, synced, vmmap, j + 1, reads)

(***************************************************************************)
(* sync(), lines 126-163: the outer loop over the images.  An image whose  *)
(* basename is in the list is skipped.  An IndexError leaves the loops.    *)
(***************************************************************************)
RECURSIVE ReconcileImages(_, _, _, _, _)
ReconcileImages(k, bases, synced, vmmap, reads) ==
    IF k > Len(ImageBinary)
    THEN [bases |-> bases, synced |-> synced, raised |-> FALSE, reads |-> reads]
    ELSE IF \E n \in 1..Len(synced) : synced[n] = Basename(ImageBinary[k])
         THEN ReconcileImages(k + 1, bases, synced, vmmap, reads)
         ELSE LET r == ScanMappings(k, bases[k], synced, vmmap, 1, reads)
              IN  IF r.raised
                  THEN [bases  |-> [bases EXCEPT ![k] = r.base],
                        synced |-> r.synced, raised |-> TRUE, reads |-> r.reads]
                  ELSE ReconcileImages(k + 1, [bases EXCEPT ![k] = r.base],
                                       r.synced, vmmap, r.reads)

(***************************************************************************)
(* state.memory.flush_pages(whitelist): every cached page is dropped       *)
(* except those inside a whitelisted range (addr, addr + limit).  Pages    *)
(* are numbered; a range covers the pages from its first to below its      *)
(* second component.                                                       *)
(***************************************************************************)
Pages == 0..1

InRange(p, r) == r[1] <= p /\ p < r[2]

FlushPages(cached, whitelist) ==
    {p \in cached : \E n \in 1..Len(whitelist) : InRange(p, whitelist[n])}

\* the (gdt.addr, gdt.addr + gdt.limit) pairs initialize_gdt_x86 may return
GdtRanges == {<<1, 2>>, <<0, 1>>}


(***************************************************************************)
(* The state.                                                              *)
(*   project      arch, _should_use_sim_procedures, loader.main_object.pic *)
(*   plugin       the Concrete objects, one per SimState, by state number  *)
(*   heap         the contents of each list object                         *)
(*   regs         each state's register file                               *)
(*   pages        each state's cached memory pages                         *)
(*   inspect      each state's 'reg_read' breakpoints (their handles)      *)
(*   backer       whether each state's memory backer has a concrete target *)
(*   fired        per state, the segment hook's runs: the handle that      *)
(*                fired, the protocol it ran and the range it returned     *)
(*   mapped_base  each image's mapped_base                                 *)
(*   sim_hooks    the address each symbol's SimProcedure is hooked at      *)
(*   nbp          breakpoint objects created so far (a handle is a number) *)
(*   parent       per state, the state it was copied from (0: built anew)  *)
(*   pc, cur      the position inside the running sync() and its state     *)
(*   trace        the steps the running sync() has performed               *)
(*   seen         what the target answered to the running sync()           *)
(***************************************************************************)
VARIABLES project, plugin, heap, regs, pages, inspect, backer, fired,
          mapped_base, sim_hooks, nbp, parent, pc, cur, trace, seen

vars == <<project, plugin, heap, regs, pages, inspect, backer, fired,
          mapped_base, sim_hooks, nbp, parent, pc, cur, trace, seen>>

States == 1..Len(plugin)

NoReadings == [n \in RegNames |-> Unavailable]

NoMemory == [k \in 1..Len(Relocs) |-> MemFault]

NotCalled == [supported |-> FALSE, vmmap |-> << >>]

NothingSeen ==
    [bind |-> "none", reg |-> NoReadings, mem |-> NoMemory, memread |-> << >>,
     pcread |-> "none", called |-> FALSE, maps |-> NotCalled, hdr |-> << >>]

FreshRegs == [c \in Cells |-> 0]

\* where each SimProcedure is hooked after the project is loaded
LoadedHooks == [s \in Symbols |-> 0]

(***************************************************************************)
(* The order of sync()'s statements.                                       *)
(***************************************************************************)
StepAfterImagesEarly(step) ==
    CASE step = "call"    -> "bind"
      [] step = "bind"    -> "regs"
      [] step = "regs"    -> "imports"
      [] step = "imports" -> "images"
      [] step = "images"  -> "flush"
      [] step = "flush"   -> "hook"
      [] OTHER            -> "done"

StepAfter(step) ==
    CASE step = "call"    -> "bind"
      [] step = "bind"    -> "regs"
      [] step = "regs"    -> "imports"
      [] step = "imports" -> "flush"
      [] step = "flush"   -> "hook"
      [] step = "hook"    -> "images"
      [] OTHER            -> "done"

(***************************************************************************)
(* The environment a specification explores: the project configurations    *)
(* of its initial states and, per read of the target, the answers the      *)
(* target may give.                                                        *)
(***************************************************************************)
Projects(archs, loaders) ==
    {[arch |-> a, should_use_sim_procedures |-> l[1], pic |-> l[2]] :
        a \in archs, l \in loaders}

Readings(env, arch) ==
    IF env.reg_faults THEN AllReadings(arch)
    ELSE {r \in AllReadings(arch) : \A n \in ListedNames(arch) : r[n].ok}

MemoryReads(env) ==
    {m \in [1..Len(Relocs) -> env.mem \cup {MemFault}] :
        \A k \in 1..Len(Relocs) :
            IF Relocs[k].symbol = NoSymbol THEN m[k] = MemFault
                                           ELSE m[k] \in env.mem}

Pointers == {[ok |-> TRUE, bytes |-> b] : b \in TargetPointers}

(***************************************************************************)
(* Init: one SimState, whose Concrete plugin SimState.register_default     *)
(* built with no arguments.                                                *)
(***************************************************************************)
InitIn(env) ==
    /\ project \in env.projects
    /\ plugin = <<ConcreteDefault>>
    /\ heap = [l \in ListIds |-> << >>]
    /\ regs = <<FreshRegs>>
    /\ pages = <<{}>>
    /\ inspect = <<{}>>
    /\ backer = <<FALSE>>
    /\ fired = << << >> >>
    /\ mapped_base = LoadedBase
    /\ sim_hooks = LoadedHooks
    /\ nbp = 0
    /\ parent = <<0>>
    /\ pc = "idle"
    /\ cur = 0
    /\ trace = << >>
    /\ seen = NothingSeen

(***************************************************************************)
(* sync() is entered.                                                      *)
(***************************************************************************)
SyncCall(i) ==
    /\ pc = "idle"
    /\ pc' = StepAfter("call")
    /\ cur' = i
    /\ trace' = << >>
    /\ seen' = NothingSeen
    /\ UNCHANGED <<project, plugin, heap, regs, pages, inspect, backer, fired,
                   mapped_base, sim_hooks, nbp, parent>>

(***************************************************************************)
(* Lines 61-64: set_concrete_target(target).  It may raise; nothing in     *)
(* sync() catches it.                                                      *)
(***************************************************************************)
\* where control goes when line 64 raises: out of sync()
BindOutcomeSwallowed(fault) == StepAfter("bind")

BindOutcome(fault) == IF fault THEN "raised" ELSE StepAfter("bind")

Bind(env) ==
    /\ pc = "bind"
    /\ \E fault \in env.bind_faults :
          /\ pc' = BindOutcome(fault)
          /\ seen' = [seen EXCEPT !.bind = IF fault THEN "fault" ELSE "ok"]
          /\ IF fault
             THEN UNCHANGED <<backer, trace>>
             ELSE /\ backer' = [backer EXCEPT ![cur] = TRUE]
                  /\ trace' = Append(trace, "bind")
    /\ UNCHANGED <<project, plugin, heap, regs, pages, inspect, fired,
                   mapped_base, sim_hooks, nbp, parent, cur>>

(***************************************************************************)
(* Lines 66-81: the register loop.                                         *)
(***************************************************************************)
SyncRegs(env) ==
    /\ pc = "regs"
    /\ \E r \in Readings(env, project.arch) :
          /\ regs' = [regs EXCEPT ![cur] =
                         SyncRegisterList(regs[cur], RegisterList(project.arch), r)]
          /\ seen' = [seen EXCEPT !.reg = r]
    /\ pc' = StepAfter("regs")
    /\ trace' = Append(trace, "regs")
    /\ UNCHANGED <<project, plugin, heap, pages, inspect, backer, fired,
                   mapped_base, sim_hooks, nbp, parent, cur>>

(***************************************************************************)
(* Lines 83-97: import rebinding, or the warning.                          *)
(***************************************************************************)
Imports(env) ==
    /\ pc = "imports"
    /\ IF ShouldRehook(project)
       THEN \E m \in MemoryReads(env) :
               LET r == RehookLoop(sim_hooks, 1, m, StructFmt(project.arch), << >>)
               IN  /\ sim_hooks' = r.hooks
                   /\ seen' = [seen EXCEPT !.mem = m, !.memread = r.read]
                   /\ pc' = IF r.raised THEN "raised" ELSE StepAfter("imports")
                   /\ trace' = Append(trace, "imports")
       ELSE /\ pc' = StepAfter("imports")
            /\ trace' = Append(trace, "imports_skipped")
            /\ UNCHANGED <<sim_hooks, seen>>
    /\ UNCHANGED <<project, plugin, heap, regs, pages, inspect, backer, fired,
                   mapped_base, nbp, parent, cur>>

(***************************************************************************)
(* Lines 99-103: flush_pages(self.whitelist), then the log line that       *)
(* reads the target's pc register; SimConcreteRegisterError from that      *)
(* read is not caught.                                                     *)
(***************************************************************************)
FlushArgumentEmpty(self) == << >>

FlushArgument(self) == heap[self.whitelist]

Flush(env) ==
    /\ pc = "flush"
    /\ pages' = [pages EXCEPT ![cur] = FlushPages(pages[cur], FlushArgument(plugin[cur]))]
    /\ trace' = Append(trace, "flush")
    /\ \E fault \in env.pc_faults :
          /\ pc' = IF fault THEN "raised" ELSE StepAfter("flush")
          /\ seen' = [seen EXCEPT !.pcread = IF fault THEN "fault" ELSE "ok"]
    /\ UNCHANGED <<project, plugin, heap, regs, inspect, backer, fired,
                   mapped_base, sim_hooks, nbp, parent, cur>>

(***************************************************************************)
(* Lines 105-113: install the segment hook unless the callback flag is     *)
(* set.  state.inspect.b returns a new breakpoint object.                  *)
(***************************************************************************)
\* the guard of line 107
ShouldInstallAlways(self) == TRUE

ShouldInstall(self) == ~self.segment_registers_callback_initialized

Hook ==
    /\ pc = "hook"
    /\ IF ShouldInstall(plugin[cur])
       THEN /\ nbp' = nbp + 1
            /\ inspect' = [inspect EXCEPT ![cur] = @ \cup {nbp + 1}]
            /\ plugin' = [plugin EXCEPT
                             ![cur].fs_register_bp = nbp + 1,
                             ![cur].segment_registers_callback_initialized = TRUE]
            /\ trace' = Append(trace, "hook")
       ELSE /\ trace' = Append(trace, "hook_kept")
            /\ UNCHANGED <<nbp, inspect, plugin>>
    /\ pc' = StepAfter("hook")
    /\ UNCHANGED <<project, parent, heap, regs, pages, backer, fired,
                   mapped_base, sim_hooks, cur, seen>>

(***************************************************************************)
(* Lines 115-163: image reconciliation.                                    *)
(***************************************************************************)
\* lines 120-124: the handler of NotImplementedError
OnNotImplementedFlagKept(self) == self

OnNotImplemented(self) == [self EXCEPT !.synchronize_cle = FALSE]

ImagesStep(env) ==
    /\ pc = "images"
    /\ IF ~plugin[cur].synchronize_cle
       THEN /\ pc' = StepAfter("images")
            /\ trace' = Append(trace, "images_off")
            /\ UNCHANGED <<plugin, heap, mapped_base, seen>>
       ELSE \E t \in env.tables :
               IF ~t.supported
               THEN /\ plugin' = [plugin EXCEPT ![cur] = OnNotImplemented(@)]
                    /\ pc' = "done"
                    /\ trace' = Append(trace, "images_unsupported")
                    /\ seen' = [seen EXCEPT !.called = TRUE, !.maps = t]
                    /\ UNCHANGED <<heap, mapped_base>>
               ELSE LET lst == plugin[cur].already_sync_objects_addresses
                        r   == ReconcileImages(1, mapped_base, heap[lst], t.vmmap, << >>)
                    IN  /\ Len(r.synced) <= MaxSynced
                        /\ mapped_base' = r.bases
                        /\ heap' = [heap EXCEPT ![lst] = r.synced]
                        /\ pc' = IF r.raised THEN "raised" ELSE StepAfter("images")
                        /\ trace' = Append(trace, "images")
                        /\ seen' = [seen EXCEPT !.called = TRUE, !.maps = t,
                                                !.hdr = r.reads]
                        /\ UNCHANGED plugin
    /\ UNCHANGED <<project, regs, pages, inspect, backer, fired, sim_hooks, nbp, parent, cur>>

(***************************************************************************)
(* sync() returns, or the exception reaches its caller.                    *)
(***************************************************************************)
Return ==
    /\ pc \in {"done", "raised"}
    /\ pc' = "idle"
    /\ cur' = 0
    /\ trace' = << >>
    /\ seen' = NothingSeen
    /\ UNCHANGED <<project, plugin, heap, regs, pages, inspect, backer, fired,
                   mapped_base, sim_hooks, nbp, parent>>


(***************************************************************************)
(* _sync_segments(state): the action of the 'reg_read' breakpoint, run     *)
(* when the symbolic execution of state i reads the segment register       *)
(* while the breakpoint is in state.inspect.                               *)
(***************************************************************************)
SegmentProtocol(arch) ==
    CASE arch = "AMD64" -> "initialize_segment_register_x64"
      [] arch = "X86"   -> "initialize_gdt_x86"
      [] OTHER          -> "none"

\* line 188
SegmentsWhitelistAnyArch(arch, whitelist, gdt) == Append(whitelist, gdt)

SegmentsWhitelist(arch, whitelist, gdt) ==
    IF arch = "X86" THEN Append(whitelist, gdt) ELSE whitelist

\* lines 191-193
SegmentsPluginFlagCleared(self) ==
    [self EXCEPT !.segment_registers_initialized = TRUE,
                 !.segment_registers_callback_initialized = FALSE,
                 !.fs_register_bp = None]

SegmentsPlugin(self) ==
    [self EXCEPT !.segment_registers_initialized = TRUE,
                 !.fs_register_bp = None]

\* line 190: remove_breakpoint('reg_read', bp=state.concrete.fs_register_bp)
SegmentsInspectKept(breakpoints, self) == breakpoints

SegmentsInspect(breakpoints, self) == breakpoints \ {self.fs_register_bp}

SyncSegments(env, i) ==
    /\ pc = "idle"
    /\ \E b \in inspect[i] :
       \E gdt \in (IF project.arch = "X86" THEN env.gdts ELSE {<<0, 0>>}) :
          /\ heap' = [heap EXCEPT ![plugin[i].whitelist] =
                         SegmentsWhitelist(project.arch, @, gdt)]
          /\ fired' = [fired EXCEPT ![i] =
                          Append(@, [bp |-> b, protocol |-> SegmentProtocol(project.arch),
                                     gdt |-> gdt])]
    /\ inspect' = [inspect EXCEPT ![i] = SegmentsInspect(@, plugin[i])]
    /\ plugin' = [plugin EXCEPT ![i] = SegmentsPlugin(@)]
    /\ UNCHANGED <<project, regs, pages, backer, mapped_base, sim_hooks, nbp, parent,
                   pc, cur, trace, seen>>

(***************************************************************************)
(* The symbolic execution of state i reads memory: the page is cached.     *)
(***************************************************************************)
TouchPage(env, i) ==
    /\ pc = "idle"
    /\ \E p \in env.touch \ pages[i] :
          pages' = [pages EXCEPT ![i] = @ \cup {p}]
    /\ UNCHANGED <<project, plugin, heap, regs, inspect, backer, fired,
                   mapped_base, sim_hooks, nbp, parent, pc, cur, trace, seen>>

(***************************************************************************)
(* A second SimState of the same project is created: its plugin is built   *)
(* by Concrete() with the default arguments.                               *)
(***************************************************************************)
Construct ==
    /\ pc = "idle"
    /\ Len(plugin) < MaxStates
    /\ plugin' = Append(plugin, ConcreteDefault)
    /\ regs' = Append(regs, FreshRegs)
    /\ pages' = Append(pages, {})
    /\ inspect' = Append(inspect, {})
    /\ backer' = Append(backer, FALSE)
    /\ fired' = Append(fired, << >>)
    /\ parent' = Append(parent, 0)
    /\ UNCHANGED <<project, heap, mapped_base, sim_hooks, nbp, pc, cur, trace, seen>>

(***************************************************************************)
(* State i is copied: the new state's plugin is plugin[i].copy(); its      *)
(* registers, pages and breakpoints are the copied state's.                *)
(***************************************************************************)
Copy(i) ==
    /\ pc = "idle"
    /\ Len(plugin) < MaxStates
    /\ plugin' = Append(plugin, ConcreteCopy(plugin[i]))
    /\ regs' = Append(regs, regs[i])
    /\ pages' = Append(pages, pages[i])
    /\ inspect' = Append(inspect, inspect[i])
    /\ backer' = Append(backer, backer[i])
    /\ fired' = Append(fired, << >>)
    /\ parent' = Append(parent, i)
    /\ UNCHANGED <<project, heap, mapped_base, sim_hooks, nbp, pc, cur, trace, seen>>

(***************************************************************************)
(* Next-state relations.                                                   *)
(***************************************************************************)
SyncSteps(env) ==
    \/ \E i \in States : SyncCall(i)
    \/ Bind(env)
    \/ SyncRegs(env)
    \/ Imports(env)
    \/ Flush(env)
    \/ Hook
    \/ ImagesStep(env)
    \/ Return

NextIn(env) ==
    \/ SyncSteps(env)
    \/ \E i \in States : SyncSegments(env, i)
    \/ \E i \in States : TouchPage(env, i)

NextManyIn(env) ==
    \/ NextIn(env)
    \/ Construct
    \/ \E i \in States : Copy(i)

(***************************************************************************)
(* Environments.  Each specification below explores the whole of one part  *)
(* of the target's behaviour and a few representative answers of the       *)
(* others.                                                                 *)
(***************************************************************************)
AllLoaders == BOOLEAN \X BOOLEAN

OnePointer == {[ok |-> TRUE, bytes |-> <<1, 0>>]}

\* get_mappings() unsupported, an empty table, the library under its
\* versioned name at a new address
FewTables ==
    {NotImplemented,
     [supported |-> TRUE, vmmap |-> << >>],
     [supported |-> TRUE,
      vmmap |-> << [name |-> <<"c", "-", "2">>, start_address |-> 1, header |-> TRUE] >>]}

Env(projects, reg_faults, mem, bind_faults, pc_faults, tables, touch, gdts) ==
    [projects    |-> projects,
     reg_faults  |-> reg_faults,
     mem         |-> mem,
     bind_faults |-> bind_faults,
     pc_faults   |-> pc_faults,
     tables      |-> tables,
     touch       |-> touch,
     gdts        |-> gdts]

\* every step of sync() with each of its outcomes
EnvSync ==
    Env(Projects(ArchKinds, {<<TRUE, FALSE>>, <<TRUE, TRUE>>}), TRUE,
        OnePointer \cup {MemFault}, BOOLEAN, BOOLEAN, FewTables, Pages, GdtRanges)

\* every outcome of every register read
EnvRegs ==
    Env(Projects(ArchKinds, {<<FALSE, FALSE>>}), TRUE,
        OnePointer, BOOLEAN, BOOLEAN, FewTables, {0}, {<<1, 2>>})

\* every loader setting and every outcome of every relocation read
EnvImports ==
    Env(Projects({"AMD64", "OTHER"}, AllLoaders), FALSE,
        Pointers \cup {MemFault}, {FALSE}, {FALSE}, FewTables, {0}, {<<1, 2>>})

\* every mapping table
EnvImages ==
    Env(Projects({"AMD64"}, {<<FALSE, FALSE>>}), FALSE,
        OnePointer, {FALSE}, BOOLEAN, MappingTables(MaxMaps), {0}, {<<1, 2>>})

\* every architecture, page and descriptor-table range
EnvSegments ==
    Env(Projects(ArchKinds, {<<FALSE, FALSE>>}), FALSE,
        OnePointer, BOOLEAN, BOOLEAN, FewTables, Pages, GdtRanges)

\* several states of one project
EnvMany ==
    Env(Projects({"X86", "AMD64"}, {<<FALSE, FALSE>>}), FALSE,
        OnePointer, {FALSE}, BOOLEAN, FewTables, {0}, {<<1, 2>>})

Init == InitIn(EnvSync)

Next == NextIn(EnvSync)

Spec == Init /\ [][Next]_vars

SpecRegs == InitIn(EnvRegs) /\ [][NextIn(EnvRegs)]_vars

SpecImports == InitIn(EnvImports) /\ [][NextIn(EnvImports)]_vars

SpecImages == InitIn(EnvImages) /\ [][NextIn(EnvImages)]_vars

SpecSegments == InitIn(EnvSegments) /\ [][NextIn(EnvSegments)]_vars

SpecMany == InitIn(EnvMany) /\ [][NextManyIn(EnvMany)]_vars


(***************************************************************************)
(* Properties.                                                             *)
(***************************************************************************)
\* the program's own state: everything but the position inside sync() and
\* the record of the running call
data == <<project, plugin, heap, regs, pages, inspect, backer, fired,
          mapped_base, sim_hooks, nbp, parent>>

\* the running sync() has performed one of these steps
Did(tags) == \E k \in 1..Len(trace) : trace[k] \in tags

\* the place of a performed step in sync()'s documented order
StepPos(tag) ==
    CASE tag = "bind"                                             -> 1
      [] tag = "regs"                                             -> 2
      [] tag \in {"imports", "imports_skipped"}                   -> 3
      [] tag = "flush"                                            -> 4
      [] tag \in {"hook", "hook_kept"}                            -> 5
      [] tag \in {"images", "images_off", "images_unsupported"}   -> 6
      [] OTHER                                                    -> 0

TraceInOrder == \A k \in 1..Len(trace) : StepPos(trace[k]) = k

WhitelistOf(i) == heap[plugin[i].whitelist]

SyncedOf(i) == heap[plugin[i].already_sync_objects_addresses]

\* this step is state i's: a step of its sync(), or its segment hook firing
Acts(i) ==
    \/ pc # "idle" /\ cur = i
    \/ pc = "idle" /\ fired'[i] # fired[i]

\* this step is the call of get_mappings()
CallsGetMappings == ~seen.called /\ seen'.called

\* a name that matches the image is in the list
Recorded(img, list) ==
    \E n \in 1..Len(list) :
        CheckMappingName(Basename(ImageBinary[img]), list[n]) = "True"

(***************************************************************************)
(* C1: when sync() has completed, every register the architecture flags    *)
(* concrete and for which the target's read_register returned a value      *)
(* holds exactly that value in the state's register file, whatever the     *)
(* reads of its sub-registers returned.                                    *)
(***************************************************************************)
C1_RegistersSynced ==
    pc = "done" =>
        \A k \in 1..Len(RegisterList(project.arch)) :
            LET R == RegisterList(project.arch)[k]
            IN  (R.concrete /\ seen.reg[R.name].ok) =>
                    RegRead(regs[cur], R.name) = seen.reg[R.name].val

\* sync() completed after the target returned 1 for eax and a value for rax
\* whose low cell is 0, and rax holds the value read for rax
C1_Witness ==
    /\ pc = "done"
    /\ project.arch = "AMD64"
    /\ seen.reg["eax"].ok
    /\ seen.reg["rax"].ok
    /\ seen.reg["rax"].val = <<0, 1>>
    /\ RegRead(regs[cur], "rax") = <<0, 1>>
    /\ seen.reg["rbx"].ok

C3_NoLossNoDuplicate ==
    [][ \A l \in {DefaultAlreadySync} :
           /\ Range(heap[l]) \subseteq Range(heap'[l])
           /\ \A x \in Range(heap'[l]) : Count(heap'[l], x) <= 1
      ]_vars

(***************************************************************************)
(* C4: once an image has been header-confirmed against a live mapping and  *)
(* recorded, every later sync() call on the state skips it: no header read *)
(* for it, no rebase of it, no second record of it.                        *)
(***************************************************************************)
C4_RecordedImageSkipped ==
    [][ (pc = "images" /\ plugin[cur].synchronize_cle) =>
           \A img \in Images :
               Recorded(img, SyncedOf(cur)) =>
                   /\ \A n \in 1..Len(seen'.hdr) : seen'.hdr[n][1] # img
                   /\ mapped_base'[img] = mapped_base[img]
      ]_vars

(***************************************************************************)
(* C5: when get_mappings() raises NotImplementedError during a sync()      *)
(* call, synchronize_cle becomes false, the call returns normally and      *)
(* keeps what its earlier steps did; once the flag of a state is false it  *)
(* stays false, and no sync() call on that state calls get_mappings() or   *)
(* changes an image's base.                                                *)
(***************************************************************************)
C5_UnsupportedDisablesImages ==
    [][ /\ \A i \in States :
              ~plugin[i].synchronize_cle => ~plugin'[i].synchronize_cle
        /\ (CallsGetMappings /\ ~seen'.maps.supported) =>
              /\ ~plugin'[cur].synchronize_cle
              /\ plugin' = [plugin EXCEPT ![cur].synchronize_cle = FALSE]
              /\ pc' = "done"
              /\ trace' = Append(trace, "images_unsupported")
              /\ UNCHANGED <<regs, pages, inspect, backer, sim_hooks,
                             mapped_base, heap>>
        /\ (pc # "idle" /\ ~plugin[cur].synchronize_cle) =>
              /\ ~CallsGetMappings
              /\ mapped_base' = mapped_base
      ]_vars

\* a sync() call that ran to its end on a state whose flag an earlier call
\* had cleared, and skipped image reconciliation
C5_Witness ==
    /\ pc = "done"
    /\ ~plugin[cur].synchronize_cle
    /\ trace = <<"bind", "regs", "imports_skipped", "flush", "hook_kept", "images_off">>
    /\ ~seen.called

(***************************************************************************)
(* C6 as stated: the segment hook fires at most once per installation,     *)
(* and in every state after it has fired                                   *)
(* segment_registers_callback_initialized is false and fs_register_bp is   *)
(* cleared.                                                                *)
(***************************************************************************)
C6_FlagFalseAfterFiring ==
    \A i \in States :
        /\ \A n, m \in 1..Len(fired[i]) : fired[i][n].bp = fired[i][m].bp => n = m
        /\ fired[i] # << >> =>
              /\ ~plugin[i].segment_registers_callback_initialized
              /\ plugin[i].fs_register_bp = None

(***************************************************************************)
(* C6 amended: the segment hook fires at most once per installation, and   *)
(* in every state after it has fired the breakpoint is out of              *)
(* state.inspect, fs_register_bp is cleared, segment_registers_initialized *)
(* is true, and segment_registers_callback_initialized is still true.      *)
(***************************************************************************)
C6_ClearedAfterFiring ==
    \A i \in States :
        /\ \A n, m \in 1..Len(fired[i]) : fired[i][n].bp = fired[i][m].bp => n = m
        /\ fired[i] # << >> =>
              /\ plugin[i].segment_registers_callback_initialized
              /\ plugin[i].segment_registers_initialized
              /\ plugin[i].fs_register_bp = None
              /\ inspect[i] = {}

\* a sync() call that completed after the hook had fired, keeping the flag
C6_Witness ==
    /\ pc = "done"
    /\ fired[cur] # << >>
    /\ Did({"hook_kept"})
    /\ plugin[cur].fs_register_bp = None

(***************************************************************************)
(* C7: a whitelist never loses a range, and the flush of sync() keeps      *)
(* every cached page that lies in a range of the state's whitelist.        *)
(***************************************************************************)
C7_WhitelistKept ==
    [][ /\ \A l \in {DefaultWhitelist} : IsPrefix(heap[l], heap'[l])
        /\ pc = "flush" =>
              \A p \in pages[cur] :
                  (\E n \in 1..Len(WhitelistOf(cur)) : InRange(p, WhitelistOf(cur)[n]))
                      => p \in pages'[cur]
      ]_vars

\* after the flush of a state whose whitelist holds a range: the page in
\* the range is still cached
C7_Witness ==
    /\ pc = "hook"
    /\ WhitelistOf(cur) = << <<1, 2>> >>
    /\ pages[cur] = {1}

(***************************************************************************)
(* C8: after copy(), a step of the original or of the copy (its sync(),    *)
(* its segment hook firing) leaves the other's whitelist and               *)
(* already_sync_objects_addresses as they were.                            *)
(***************************************************************************)
C8_CopySharesNothing ==
    [][ \A i, j \in States :
           (i # j /\ (parent[j] = i \/ parent[i] = j) /\ Acts(i)) =>
               /\ WhitelistOf(j)' = WhitelistOf(j)
               /\ SyncedOf(j)' = SyncedOf(j)
      ]_vars

(***************************************************************************)
(* C9: of two plugins each built with the default arguments, a step of one *)
(* leaves the other's whitelist and already_sync_objects_addresses as they *)
(* were.                                                                   *)
(***************************************************************************)
C9_DefaultsIndependent ==
    [][ \A i, j \in States :
           (i # j /\ parent[i] = 0 /\ parent[j] = 0 /\ Acts(i)) =>
               /\ WhitelistOf(j)' = WhitelistOf(j)
               /\ SyncedOf(j)' = SyncedOf(j)
      ]_vars

(***************************************************************************)
(* C10: when set_concrete_target raises, sync() is left with the exception *)
(* and none of its later steps runs: from the failing bind to the return   *)
(* to the caller nothing of the program's state changes.                   *)
(***************************************************************************)
C10_BindFailureAborts ==
    [][ /\ seen'.bind = "fault" => (pc' = "raised" /\ trace' = << >> /\ UNCHANGED data)
        /\ seen.bind = "fault" => (pc' = "idle" /\ UNCHANGED data)
      ]_vars

\* the bind of a later sync() call fails, on a state an earlier call has
\* synchronized
C10_Witness ==
    /\ pc = "raised"
    /\ seen.bind = "fault"
    /\ backer[cur]
    /\ plugin[cur].segment_registers_callback_initialized

\* the little- or big-endian value of a two-byte pointer
PointerValue(arch, bytes) ==
    IF arch \in {"AMD64", "X86"} THEN bytes[1] + 256 * bytes[2]
                                 ELSE 256 * bytes[1] + bytes[2]

(***************************************************************************)
(* C11: when import rebinding runs and the memory read of one relocation   *)
(* fails, the other relocations with a symbol are still re-targeted to the *)
(* pointers read for them and sync() goes on to the flush.                 *)
(***************************************************************************)
C11_RelocFailureTolerated ==
    [][ (pc = "imports" /\ ShouldRehook(project)) =>
           /\ pc' = "flush"
           /\ \A k \in 1..Len(Relocs) :
                 (Relocs[k].symbol # NoSymbol /\ seen'.mem[k].ok) =>
                     sim_hooks'[Relocs[k].symbol] =
                         PointerValue(project.arch, seen'.mem[k].bytes)
      ]_vars

\* the registers flagged concrete and their sub-registers, in the order
\* sync() reads them
RECURSIVE ReadOrder(_)
ReadOrder(list) ==
    IF list = << >> THEN << >>
    ELSE IF Head(list).concrete
         THEN Head(list).subregisters \o <<Head(list).name>> \o ReadOrder(Tail(list))
         ELSE ReadOrder(Tail(list))

\* the names reg and other cover a common cell
Overlap(reg, other) == Range(RegCells(reg)) \cap Range(RegCells(other)) # {}

\* name k of the order was read with success and no name read with success
\* after it covers one of its cells
LastWriter(order, k, reads) ==
    /\ reads[order[k]].ok
    /\ \A m \in (k + 1)..Len(order) :
          reads[order[m]].ok => ~Overlap(order[k], order[m])

(***************************************************************************)
(* C12 as stated: a RegisterUnavailable failure on one register or         *)
(* sub-register does not block the others (every other listed name whose   *)
(* read succeeds is written), and the failing register keeps its previous  *)
(* value.                                                                  *)
(***************************************************************************)
C12_FailingRegisterKept ==
    [][ pc = "regs" =>
           LET order == ReadOrder(RegisterList(project.arch))
           IN  \A k \in 1..Len(order) :
                  /\ LastWriter(order, k, seen'.reg) =>
                        RegRead(regs'[cur], order[k]) = seen'.reg[order[k]].val
                  /\ ~seen'.reg[order[k]].ok =>
                        RegRead(regs'[cur], order[k]) = RegRead(regs[cur], order[k])
      ]_vars

(***************************************************************************)
(* C12 amended: a RegisterUnavailable failure on one register or           *)
(* sub-register does not block the others (every other listed name whose   *)
(* read succeeds is written), and the failing read writes nothing: the     *)
(* failing register keeps its previous value in every part that no         *)
(* successfully read register or sub-register covers.                      *)
(***************************************************************************)
C12_FailureWritesNothing ==
    [][ pc = "regs" =>
           LET order == ReadOrder(RegisterList(project.arch))
           IN  /\ \A k \in 1..Len(order) :
                     LastWriter(order, k, seen'.reg) =>
                        RegRead(regs'[cur], order[k]) = seen'.reg[order[k]].val
               /\ \A c \in Cells :
                     (\A k \in 1..Len(order) :
                         seen'.reg[order[k]].ok => c \notin Range(RegCells(order[k])))
                        => regs'[cur][c] = regs[cur][c]
      ]_vars

\* a second sync() call's register step where the read of rax and of eax
\* failed and that of rbx succeeded: rax keeps the value the first call
\* gave it, rbx is written
C12_Witness ==
    /\ pc = "imports"
    /\ project.arch = "AMD64"
    /\ ~seen.reg["rax"].ok
    /\ ~seen.reg["eax"].ok
    /\ seen.reg["rbx"].ok
    /\ RegRead(regs[cur], "rax") = <<1, 1>>
    /\ RegRead(regs[cur], "rbx") = <<1>>

\* the rebased addresses of the relocations from k on that have a symbol
RECURSIVE SymbolAddresses(_)
SymbolAddresses(k) ==
    IF k > Len(Relocs) THEN << >>
    ELSE IF Relocs[k].symbol = NoSymbol THEN SymbolAddresses(k + 1)
         ELSE <<Relocs[k].rebased_addr>> \o SymbolAddresses(k + 1)

\* every read the relocation loop makes is answered
AllReadsOk(mem) ==
    \A k \in 1..Len(Relocs) : Relocs[k].symbol # NoSymbol => mem[k].ok

NameMatches(img, vmmap, j) ==
    LET a == Basename(ImageBinary[img])
        b == vmmap[j].name
    IN  \/ a = b
        \/ /\ FindAll(a) # << >>
           /\ FindAll(b) # << >>
           /\ FindAll(a)[1] = FindAll(b)[1]

Confirmed(img, vmmap, j) == NameMatches(img, vmmap, j) /\ vmmap[j].header

\* the first mapping of the table confirmed for the image (0: none)
FirstConfirmed(img, vmmap) ==
    IF \E j \in 1..Len(vmmap) : Confirmed(img, vmmap, j)
    THEN CHOOSE j \in 1..Len(vmmap) :
            /\ Confirmed(img, vmmap, j)
            /\ \A m \in 1..(j - 1) : ~Confirmed(img, vmmap, m)
    ELSE 0

\* the image's basename is in the list
Listed(img, list) == \E n \in 1..Len(list) : list[n] = Basename(ImageBinary[img])

\* the mappings whose header the call read for the image
HeaderReads(img, hdr) == {hdr[n][2] : n \in {m \in 1..Len(hdr) : hdr[m][1] = img}}

C15_OneHookOutstanding ==
    [][ /\ \A i \in States : Cardinality(inspect'[i]) <= 1
        /\ \A i \in States :
              inspect'[i] \ inspect[i] # {} =>
                  /\ pc = "hook" /\ cur = i
                  /\ inspect[i] = {}
                  /\ plugin'[i].fs_register_bp \in inspect'[i]
        /\ \A i \in States :
              (pc = "hook" /\ cur = i /\ inspect[i] # {}) =>
                  /\ inspect'[i] = inspect[i]
                  /\ nbp' = nbp
      ]_vars

\* a second sync() call reached its end with the hook of the first call
\* still outstanding and installed nothing
C15_Witness ==
    /\ pc = "done"
    /\ fired[cur] = << >>
    /\ trace[5] = "hook_kept"
    /\ inspect[cur] = {1}
    /\ nbp = 1
    /\ plugin[cur].fs_register_bp = 1

(***************************************************************************)
(* C16: a RegisterUnavailable failure of a register read that sync() makes *)
(* (a read of the register loop, or the read of the pc register after the  *)
(* flush) does not end the call: the register step is followed by the      *)
(* import step and the flush by the hook step.                             *)
(***************************************************************************)
C16_RegisterFailureNotFatal ==
    [][ /\ pc = "regs" => pc' = "imports"
        /\ pc = "flush" => pc' = "hook"
      ]_vars

(***************************************************************************)
(* C17: when the segment hook of a state fires, on X86 the descriptor      *)
(* table protocol runs and the range (gdt.addr, gdt.addr + gdt.limit) it   *)
(* returned is appended to the state's whitelist; on AMD64 the 64-bit      *)
(* protocol runs and the whitelist is unchanged; on another architecture   *)
(* no protocol runs and the whitelist is unchanged; in all three cases     *)
(* segment_registers_initialized becomes true, the breakpoint leaves       *)
(* state.inspect and fs_register_bp is cleared.                            *)
(***************************************************************************)
C17_HookFiring ==
    [][ \A i \in States :
           fired'[i] # fired[i] =>
              LET run == fired'[i][Len(fired'[i])]
              IN  /\ fired'[i] = Append(fired[i], run)
                  /\ run.bp = plugin[i].fs_register_bp
                  /\ project.arch = "X86" =>
                        /\ run.protocol = "initialize_gdt_x86"
                        /\ run.gdt \in GdtRanges
                        /\ WhitelistOf(i)' = Append(WhitelistOf(i), run.gdt)
                  /\ project.arch = "AMD64" =>
                        /\ run.protocol = "initialize_segment_register_x64"
                        /\ WhitelistOf(i)' = WhitelistOf(i)
                  /\ project.arch \notin {"X86", "AMD64"} =>
                        /\ run.protocol = "none"
                        /\ WhitelistOf(i)' = WhitelistOf(i)
                  /\ plugin'[i].segment_registers_initialized
                  /\ plugin'[i].fs_register_bp = None
                  /\ run.bp \in inspect[i]
                  /\ run.bp \notin inspect'[i]
      ]_vars

\* on X86 the hook has fired on a state whose whitelist was empty and the
\* range <<0, 1>> is whitelisted
C17_Witness ==
    /\ pc = "idle"
    /\ project.arch = "X86"
    /\ Len(fired[1]) = 1
    /\ fired[1][1].gdt = <<0, 1>>
    /\ WhitelistOf(1) = << <<0, 1>> >>
    /\ plugin[1].segment_registers_initialized
    /\ plugin[1].fs_register_bp = None
    /\ inspect[1] = {}

\* the images the call reconciles: not in the list, with a confirmed mapping
Reconcilable(list, vmmap) ==
    {img \in Images : ~Listed(img, list) /\ FirstConfirmed(img, vmmap) # 0}

(***************************************************************************)
(* C18: image reconciliation leaves an image alone that has no mapping     *)
(* matching by name with a confirmed header: its mapped_base is unchanged  *)
(* and nothing is appended to the list for it (every appended name is the  *)
(* name of the first confirmed mapping of an image that has one, at most   *)
(* one name per such image); and a sync() call on a state whose            *)
(* synchronize_cle is false changes no image's mapped_base and does not    *)
(* change the list.                                                        *)
(***************************************************************************)
C18_UnmatchedImageUntouched ==
    [][ /\ (CallsGetMappings /\ seen'.maps.supported) =>
              LET vmmap == seen'.maps.vmmap
                  old   == SyncedOf(cur)
                  new   == SyncedOf(cur)'
                  todo  == Reconcilable(old, vmmap)
              IN  /\ \A img \in Images :
                        FirstConfirmed(img, vmmap) = 0 =>
                            /\ mapped_base'[img] = mapped_base[img]
                            /\ img \notin todo
                  /\ IsPrefix(old, new)
                  /\ Len(new) - Len(old) <= Cardinality(todo)
                  /\ \A n \in (Len(old) + 1)..Len(new) :
                        \E img \in todo :
                            new[n] = vmmap[FirstConfirmed(img, vmmap)].name
        /\ (pc # "idle" /\ ~plugin[cur].synchronize_cle) =>
              /\ mapped_base' = mapped_base
              /\ heap' = heap
      ]_vars

\* the table's only mapping matches the library by name at a new address
\* but fails the header test: the header was read, the library's base and
\* the list are as they were
C18_Witness ==
    /\ pc = "done"
    /\ seen.maps.supported
    /\ seen.maps.vmmap = << [name |-> <<"c", ".", "6">>, start_address |-> 1, header |-> FALSE] >>
    /\ seen.hdr = << <<2, 1>> >>
    /\ mapped_base = LoadedBase
    /\ SyncedOf(cur) = << >>

(***************************************************************************)
(* C19: over any interleaving of sync() calls and segment register reads   *)
(* on a state, the segment initialization runs at most once: once          *)
(* segment_registers_initialized is true it stays true, and after the      *)
(* hook has fired no sync() call installs a hook, so no later read of the  *)
(* segment register runs the protocol again.                               *)
(***************************************************************************)
C19_SegmentsInitializedOnce ==
    [][ \A i \in States :
           /\ Len(fired'[i]) <= 1
           /\ plugin[i].segment_registers_initialized =>
                 plugin'[i].segment_registers_initialized
           /\ fired[i] # << >> =>
                 /\ inspect'[i] = {}
                 /\ plugin'[i].fs_register_bp = None
                 /\ fired'[i] = fired[i]
      ]_vars

\* a sync() call made after the hook had fired went through its hook step
\* and reached its end: nothing is installed, one breakpoint was ever made
C19_Witness ==
    /\ pc = "done"
    /\ Len(fired[cur]) = 1
    /\ plugin[cur].segment_registers_initialized
    /\ trace[5] = "hook_kept"
    /\ inspect[cur] = {}
    /\ nbp = 1

(***************************************************************************)
(* C20: the name test is total: for every image and every mapping of the   *)
(* table the target returns, it answers true when the names are equal or   *)
(* their first runs of word characters are equal and false otherwise, and  *)
(* never raises; a mapping with an empty name is a non-match and image     *)
(* reconciliation runs to its end.                                         *)
(***************************************************************************)
C20_NameTestTotal ==
    [][ (CallsGetMappings /\ seen'.maps.supported) =>
           /\ \A img \in Images : \A j \in 1..Len(seen'.maps.vmmap) :
                 CheckMappingName(Basename(ImageBinary[img]), seen'.maps.vmmap[j].name) =
                     (IF NameMatches(img, seen'.maps.vmmap, j) THEN "True" ELSE "False")
           /\ pc' = "done"
      ]_vars

=============================================================================
